---- MODULE Spec2Model ----
(***************************************************************************)
(* A model of the docs RAG pipeline: ingest.py (chunking, chunk ids,       *)
(* batched upserts) and rag_api.py (the /chat request pipeline).           *)
(*                                                                         *)
(* A Python str is a sequence of one-character strings, so that split,     *)
(* strip, join and the id format are computed character by character.      *)
(* A Python attribute or dict value that may be None or absent is a        *)
(* record tagged by "kind".                                                *)
(***************************************************************************)
EXTENDS Integers, Sequences, FiniteSets, TLC

VARIABLES
    \* chunk_text called on its own (ingest.py:21-44)
    text, max_words, overlap_words, chunks, chunkPc,
    \* hashlib.sha1 as an oracle: the digest of every input hashed so far
    sha1,
    \* make_chunk_id called on its own (ingest.py:47-49): the calls made
    idCalls,
    \* ingest.py main (ingest.py:96-130): the documents on disk, the command
    \* line, the Chroma collection, the runs started so far, and the
    \* position and locals of the current run
    files, args, store, runs, ipc, fileIdx, chunkIdx, batch, total_chunks,
    \* what the current run has done: its upsert calls, the chunks it
    \* embedded, and what it told its caller; and the number of records the
    \* collection held when the run started
    upserts, embedded, report, stored_at_start,
    \* rag_api.py: the environment and the two lru_cache'd handles
    api_key_set, MAX_CONTEXT_SECTIONS, genai_client_cached, collection_cached,
    \* the /chat request being served (rag_api.py:127-162): its position, its
    \* payload and locals, and the response sent
    requests, rpc, query, question, results, context, prompt, gen_response,
    response,
    \* what the request has done so far: calls to the embedding gateway,
    \* constructions of the collection handle, queries of the vector store,
    \* calls to the generation gateway, and the stage that failed, if one did
    embed_calls, collection_calls, store_calls, generate_calls, failed_stage

chunkVars == <<text, max_words, overlap_words, chunks, chunkPc>>
idVars == <<idCalls>>
corpusVars == <<files, args>>
runVars == <<store, runs, ipc, fileIdx, chunkIdx, batch, total_chunks,
             upserts, embedded, report, stored_at_start>>
ingestVars == <<corpusVars, runVars>>
serverVars == <<api_key_set, MAX_CONTEXT_SECTIONS, genai_client_cached,
                 collection_cached>>
requestVars == <<requests, rpc, query, question, results, context, prompt, gen_response,
                  response, embed_calls, collection_calls, store_calls,
                  generate_calls, failed_stage>>
chatVars == <<serverVars, requestVars>>
vars == <<chunkVars, sha1, idVars, ingestVars, chatVars>>

(***************************************************************************)
(* Bounds of the model.                                                    *)
(***************************************************************************)
MaxTextLen == 4
MaxWords == 3
MaxIdCalls == 2
MaxRuns == 2
MaxBatchSize == 2
MaxRequests == 2
MaxTopK == 2

\* n_results of the vector store query (rag_api.py:21), set within the bound
RAG_TOP_K == MaxTopK

(***************************************************************************)
(* Python str helpers.                                                     *)
(***************************************************************************)
Max(a, b) == IF a >= b THEN a ELSE b
Min(a, b) == IF a <= b THEN a ELSE b

\* The characters str.split() and str.strip() treat as whitespace.
Whitespace == {" ", "\t", "\n"}

\* All strings over alphabet of length at most n.
StringsUpTo(alphabet, n) == UNION {[1..k -> alphabet] : k \in 0..n}

RECURSIVE LStrip(_)
LStrip(s) ==
    IF s = <<>> THEN <<>>
    ELSE IF Head(s) \in Whitespace THEN LStrip(Tail(s))
    ELSE s

RECURSIVE RStrip(_)
RStrip(s) ==
    IF s = <<>> THEN <<>>
    ELSE IF s[Len(s)] \in Whitespace THEN RStrip(SubSeq(s, 1, Len(s) - 1))
    ELSE s

Strip_Nothing(s) == s
\* str.strip()
Strip(s) == RStrip(LStrip(s))

\* str.split(): the maximal runs of non-whitespace characters, in order.
\* cur is the token being read, acc the tokens already closed.
RECURSIVE SplitFrom(_, _, _)
SplitFrom(s, cur, acc) ==
    IF s = <<>> THEN (IF cur = <<>> THEN acc ELSE Append(acc, cur))
    ELSE IF Head(s) \in Whitespace
         THEN SplitFrom(Tail(s), <<>>, IF cur = <<>> THEN acc ELSE Append(acc, cur))
         ELSE SplitFrom(Tail(s), Append(cur, Head(s)), acc)

Split(s) == SplitFrom(s, <<>>, <<>>)

\* sep.join(parts)
RECURSIVE Join(_, _)
Join(sep, parts) ==
    IF parts = <<>> THEN <<>>
    ELSE IF Len(parts) = 1 THEN parts[1]
    ELSE parts[1] \o sep \o Join(sep, Tail(parts))

\* tokens[start : stop] with 0-based start and exclusive stop, start >= 0
Slice(s, start, stop) == SubSeq(s, start + 1, Min(stop, Len(s)))

(***************************************************************************)
(* chunk_text (ingest.py:21-44).                                           *)
(***************************************************************************)
window_of(mw) == Max(mw, 1)

stride_NoOverlapFloor(window, ow) == Max(window - ow, 1)
stride_of(window, ow) == Max(window - Max(ow, 0), 1)

\* for start in range(0, len(tokens), stride): the chunks yielded from
\* offset start on.
RECURSIVE chunk_loop(_, _, _, _)
chunk_loop(tokens, start, window, stride) ==
    IF start >= Len(tokens) THEN <<>>
    ELSE LET chunk_tokens == Slice(tokens, start, start + window)
             chunk == Strip(Join(<<" ">>, chunk_tokens))
         IN  (IF chunk # <<>> THEN <<chunk>> ELSE <<>>)
             \o chunk_loop(tokens, start + stride, window, stride)

\* The generator, materialised as the sequence of the chunks it yields.
chunk_text(t, mw, ow) ==
    LET tokens == Split(t)
    IN  IF tokens = <<>> THEN <<>>
        ELSE LET window == window_of(mw)
                 stride == stride_of(window, ow)
             IN  chunk_loop(tokens, 0, window, stride)

(***************************************************************************)
(* make_chunk_id (ingest.py:47-49).                                        *)
(*                                                                         *)
(* SHA-1 is not computed: it is an oracle that answers a new input with    *)
(* any digest and a repeated input with the digest it gave before.  What   *)
(* holds for every such oracle holds for SHA-1.                            *)
(***************************************************************************)
DigestLen == 40
PrefixLen == 12

\* Hex digests the oracle may answer: two that differ from the first
\* character on, and one that differs from the first only past the prefix.
Digests ==
    { [i \in 1..DigestLen |-> "0"],
      [i \in 1..DigestLen |-> IF i <= PrefixLen THEN "0" ELSE "f"],
      [i \in 1..DigestLen |-> "f"] }

DecimalDigits == <<"0", "1", "2", "3", "4", "5", "6", "7", "8", "9">>

\* str(n) for n >= 0, as the f-string renders an int
RECURSIVE IntToStr(_)
IntToStr(n) ==
    IF n < 10 THEN <<DecimalDigits[n + 1]>>
    ELSE IntToStr(n \div 10) \o <<DecimalDigits[(n % 10) + 1]>>

\* The string the digest is taken of: f"{source}:{index}:{content}"
digest_input(source, index, content) ==
    source \o <<":">> \o IntToStr(index) \o <<":">> \o content

sha1_update_Unstable(sha, key, d) ==
    [k \in DOMAIN sha \cup {key} |-> IF k = key THEN d ELSE sha[k]]
\* The oracle after it was asked for key and, if key is new, answered d.
sha1_update(sha, key, d) ==
    IF key \in DOMAIN sha THEN sha
    ELSE [k \in DOMAIN sha \cup {key} |-> IF k = key THEN d ELSE sha[k]]

make_chunk_id_NoIndexDelimiter(sha, source, index, content) ==
    source \o IntToStr(index) \o <<":">>
        \o SubSeq(sha[digest_input(source, index, content)], 1, PrefixLen)
\* sha holds the hexdigest of digest_input(source, index, content).
make_chunk_id(sha, source, index, content) ==
    LET digest == sha[digest_input(source, index, content)]
    IN  source \o <<":">> \o IntToStr(index) \o <<":">> \o SubSeq(digest, 1, PrefixLen)

(***************************************************************************)
(* The ingestion run (ingest.py:57-66 and 96-130).                         *)
(***************************************************************************)
\* Code points of the characters of the modelled paths.
CharOrd == [c \in {"a", "b"} |-> IF c = "a" THEN 97 ELSE 98]

\* p < q as Python orders the paths
RECURSIVE PathLess(_, _)
PathLess(p, q) ==
    IF q = <<>> THEN FALSE
    ELSE IF p = <<>> THEN TRUE
    ELSE IF CharOrd[Head(p)] # CharOrd[Head(q)] THEN CharOrd[Head(p)] < CharOrd[Head(q)]
    ELSE PathLess(Tail(p), Tail(q))

\* sorted(collect_files(...)): the matched paths in ascending order
RECURSIVE sorted(_)
sorted(S) ==
    IF S = {} THEN <<>>
    ELSE LET least == CHOOSE p \in S : \A q \in S \ {p} : PathLess(p, q)
         IN  <<least>> \o sorted(S \ {least})

\* embed_text: the embedding service's answer for a text, when it answers
embed_text(chunk) == [of |-> chunk]

\* collection.upsert: insert the records, overwriting those with the same id
upsert(st, records) ==
    LET ids == {records[i].id : i \in 1..Len(records)}
    IN  {r \in st : r.id \notin ids} \cup {records[i] : i \in 1..Len(records)}

flush_batch_NoEmptyGuard(st, b, calls) ==
    [store |-> upsert(st, b), batch |-> <<>>, upserts |-> Append(calls, b)]
\* flush_batch(collection, batch): the store, the buffer and the upsert
\* calls made so far, after the call
flush_batch(st, b, calls) ==
    IF b = <<>> THEN [store |-> st, batch |-> b, upserts |-> calls]
    ELSE [store |-> upsert(st, b), batch |-> <<>>, upserts |-> Append(calls, b)]

batch_full_OffByOne(b, batch_size) == Len(b) > batch_size
\* if len(batch) >= args.batch_size
batch_full(b, batch_size) == Len(b) >= batch_size

\* The chunks of the document at path under the run's arguments
chunks_of(fs, a, path) == chunk_text(fs[path], a.max_words, a.overlap_words)

\* The position of the two nested loops at or after (f, i): file f of the
\* sorted list (from 1) and chunk index i (from 0) if that chunk exists,
\* else the first chunk of the next file that has one; f past the list when
\* the loops are over.
RECURSIVE loop_position(_, _, _, _)
loop_position(fs, a, f, i) ==
    LET paths == sorted(DOMAIN fs)
    IN  IF f > Len(paths) THEN [file |-> f, index |-> 0]
        ELSE IF i < Len(chunks_of(fs, a, paths[f])) THEN [file |-> f, index |-> i]
        ELSE loop_position(fs, a, f + 1, 0)

(***************************************************************************)
(* rag_api.py: Python values that may be missing.                          *)
(***************************************************************************)
Absent == [kind |-> "absent"]
None == [kind |-> "None"]
Str(s) == [kind |-> "str", v |-> s]
IntV(n) == [kind |-> "int", v |-> n]
List(l) == [kind |-> "list", v |-> l]

\* getattr(obj, name, None) and dict.get(name): a missing one reads as None
get(v) == IF v = Absent THEN None ELSE v

\* Python truth of a value: None, "", [] and 0 are false
truthy(v) ==
    CASE v.kind = "absent" -> FALSE
      [] v.kind = "None" -> FALSE
      [] v.kind = "str" -> v.v # <<>>
      [] v.kind = "list" -> v.v # <<>>
      [] v.kind = "int" -> v.v # 0
      [] OTHER -> TRUE

\* seq[:n]
slice_to(seq, n) ==
    IF n >= 0 THEN SubSeq(seq, 1, Min(n, Len(seq)))
    ELSE SubSeq(seq, 1, Max(Len(seq) + n, 0))

\* zip(a, b): the pairs up to the shorter length
zip(a, b) == [i \in 1..Min(Len(a), Len(b)) |-> <<a[i], b[i]>>]

(***************************************************************************)
(* format_context, collect_sources, build_prompt (rag_api.py:58-90).       *)
(***************************************************************************)
UNKNOWN_SOURCE ==
    <<"u", "n", "k", "n", "o", "w", "n", " ", "s", "o", "u", "r", "c", "e">>

\* The label and text of section idx
section(idx, doc, meta) ==
    LET source == IF meta.source = Absent THEN UNKNOWN_SOURCE ELSE meta.source.v
        chunk_index == get(meta.chunk_index)
        label == <<"[">> \o IntToStr(idx) \o <<"]", " ">> \o source
        labelled == IF chunk_index # None
                    THEN label \o <<" ", "(", "c", "h", "u", "n", "k", " ">>
                               \o IntToStr(chunk_index.v) \o <<")">>
                    ELSE label
    IN  labelled \o <<"\n">> \o doc

format_context(documents, metadatas) ==
    LET pairs == zip(documents, metadatas)
        sections == [i \in 1..Len(pairs) |-> section(i, pairs[i][1], pairs[i][2])]
    IN  Join(<<"\n", "\n">>, sections)

\* The loop of collect_sources from entry i on; ordered also stands for seen.
RECURSIVE collect_from(_, _, _)
collect_from(metadatas, i, ordered) ==
    IF i > Len(metadatas) THEN ordered
    ELSE LET source == get(metadatas[i].source)
         IN  IF ~truthy(source) \/ \E k \in 1..Len(ordered) : ordered[k] = source.v
             THEN collect_from(metadatas, i + 1, ordered)
             ELSE collect_from(metadatas, i + 1, Append(ordered, source.v))

RECURSIVE collect_sources_NoSeenCheck(_)
collect_sources_NoSeenCheck(metadatas) ==
    IF metadatas = <<>> THEN <<>>
    ELSE LET source == get(Head(metadatas).source)
         IN  (IF truthy(source) THEN <<source.v>> ELSE <<>>)
             \o collect_sources_NoSeenCheck(Tail(metadatas))
collect_sources(metadatas) == collect_from(metadatas, 1, <<>>)

PROMPT_INSTRUCTIONS ==
    <<"Y", "o", "u", " ", "a", "r", "e", " ", "a", " ", "h", "e", "l", "p",
      "f", "u", "l", " ", "a", "s", "s", "i", "s", "t", "a", "n", "t", " ",
      "f", "o", "r", " ", "t", "h", "e", " ", "Y", "a", "h", "o", "o", " ",
      "F", "i", "n", "a", "n", "c", "e", " ", "D", "o", "c", "s", " ", "w",
      "e", "b", "s", "i", "t", "e", ".", " ", "A", "n", "s", "w", "e", "r",
      " ", "t", "h", "e", " ", "q", "u", "e", "s", "t", "i", "o", "n", " ",
      "u", "s", "i", "n", "g", " ", "O", "N", "L", "Y", " ", "t", "h", "e",
      " ", "p", "r", "o", "v", "i", "d", "e", "d", " ", "c", "o", "n", "t",
      "e", "x", "t", ".", " ", "I", "f", " ", "t", "h", "e", " ", "c", "o",
      "n", "t", "e", "x", "t", " ", "d", "o", "e", "s", " ", "n", "o", "t",
      " ", "c", "o", "n", "t", "a", "i", "n", " ", "t", "h", "e", " ", "a",
      "n", "s", "w", "e", "r", ",", " ", "s", "a", "y", " ", "y", "o", "u",
      " ", "d", "o", " ", "n", "o", "t", " ", "k", "n", "o", "w", ".", " ",
      "I", "n", "c", "l", "u", "d", "e", " ", "n", "u", "m", "b", "e", "r",
      "e", "d", " ", "c", "i", "t", "a", "t", "i", "o", "n", "s", " ", "l",
      "i", "k", "e", " ", "[", "1", "]", " ", "t", "h", "a", "t", " ", "r",
      "e", "f", "e", "r", " ", "t", "o", " ", "t", "h", "e", " ", "m", "a",
      "t", "c", "h", "i", "n", "g", " ", "c", "o", "n", "t", "e", "x", "t",
      " ", "s", "e", "c", "t", "i", "o", "n", ".", "\n", "\n">>

PROMPT_CLOSING ==
    <<"W", "r", "i", "t", "e", " ", "a", " ", "c", "o", "n", "c", "i", "s",
      "e", " ", "a", "n", "s", "w", "e", "r", " ", "f", "i", "r", "s", "t",
      ",", " ", "t", "h", "e", "n", " ", "l", "i", "s", "t", " ", "t", "h",
      "e", " ", "c", "i", "t", "a", "t", "i", "o", "n", "s", " ", "i", "n",
      "l", "i", "n", "e", ".">>

build_prompt(ctx, q) ==
    PROMPT_INSTRUCTIONS
        \o <<"C", "o", "n", "t", "e", "x", "t", ":", "\n">> \o ctx
        \o <<"\n", "\n", "Q", "u", "e", "s", "t", "i", "o", "n", ":", "\n">> \o q
        \o <<"\n", "\n">> \o PROMPT_CLOSING

(***************************************************************************)
(* generate_answer (rag_api.py:93-108), from the response the generation   *)
(* call returned.  A response is [text, candidates]; a candidate is        *)
(* [content]; a content is None or [kind |-> "content", parts]; a part is  *)
(* [text].                                                                 *)
(***************************************************************************)
FALLBACK_ANSWER ==
    <<"I", " ", "c", "o", "u", "l", "d", "n", "'", "t", " ", "g", "e", "n",
      "e", "r", "a", "t", "e", " ", "a", " ", "r", "e", "s", "p", "o", "n",
      "s", "e", ".">>

Return(v) == [kind |-> "return", value |-> v]
Raise(e) == [kind |-> "raise", exc |-> e]

\* for part in ...: the first part whose text is true, else nothing
RECURSIVE parts_loop(_, _)
parts_loop(parts, i) ==
    IF i > Len(parts) THEN None
    ELSE LET text_part == get(parts[i].text)
         IN  IF truthy(text_part) THEN Str(Strip(text_part.v))
             ELSE parts_loop(parts, i + 1)

\* for candidate in ...: the loop from candidate i on
RECURSIVE candidates_loop(_, _)
candidates_loop(candidates, i) ==
    IF i > Len(candidates) THEN Return(FALLBACK_ANSWER)
    ELSE LET content == get(candidates[i].content)
         IN  IF content = None THEN candidates_loop(candidates, i + 1)
             ELSE LET parts == IF content.parts = Absent THEN List(<<>>)
                               ELSE content.parts
                  IN  IF parts.kind # "list" THEN Raise("TypeError")
                      ELSE LET found == parts_loop(parts.v, 1)
                           IN  IF found # None THEN Return(found.v)
                               ELSE candidates_loop(candidates, i + 1)

generate_answer(resp) ==
    LET t == get(resp.text)
    IN  IF truthy(t) THEN Return(Strip(t.v))
        ELSE IF resp.candidates # Absent
             THEN candidates_loop(IF truthy(resp.candidates) THEN resp.candidates.v
                                  ELSE <<>>, 1)
             ELSE Return(FALLBACK_ANSWER)

(***************************************************************************)
(* SpecChunk: chunk_text applied to every bounded input.                   *)
(***************************************************************************)
TextAlphabet == {"a", "b", " ", "\n"}
ExampleText == <<"a", " ", "b", " ", "c", " ", "d", " ", "e">>
Texts == StringsUpTo(TextAlphabet, MaxTextLen) \cup {ExampleText}
WordCounts == -1..MaxWords

\* The parts of the state a specification does not use stay as they are here.
ChunkIdle ==
    /\ text = <<>>
    /\ max_words = 0
    /\ overlap_words = 0
    /\ chunks = <<>>
    /\ chunkPc = "idle"

IdIdle == idCalls = <<>>

IngestIdle ==
    /\ files = <<>>
    /\ args = [max_words |-> 0, overlap_words |-> 0, batch_size |-> 0]
    /\ store = {}
    /\ runs = 0
    /\ ipc = "idle"
    /\ fileIdx = 0
    /\ chunkIdx = 0
    /\ batch = <<>>
    /\ total_chunks = 0
    /\ upserts = <<>>
    /\ embedded = <<>>
    /\ report = [kind |-> "none"]
    /\ stored_at_start = 0

ChatIdle ==
    /\ api_key_set = FALSE
    /\ MAX_CONTEXT_SECTIONS = 0
    /\ genai_client_cached = FALSE
    /\ collection_cached = FALSE
    /\ requests = 0
    /\ rpc = "idle"
    /\ query = <<>>
    /\ question = <<>>
    /\ results = [kind |-> "none"]
    /\ context = <<>>
    /\ prompt = <<>>
    /\ gen_response = [kind |-> "none"]
    /\ response = [status |-> 0]
    /\ embed_calls = 0
    /\ collection_calls = 0
    /\ store_calls = 0
    /\ generate_calls = 0
    /\ failed_stage = "none"

ChunkInit ==
    /\ text \in Texts
    /\ max_words \in WordCounts
    /\ overlap_words \in WordCounts
    /\ chunks = <<>>
    /\ chunkPc = "call"
    /\ sha1 = <<>>
    /\ IdIdle
    /\ IngestIdle
    /\ ChatIdle

ChunkCall ==
    /\ chunkPc = "call"
    /\ chunks' = chunk_text(text, max_words, overlap_words)
    /\ chunkPc' = "returned"
    /\ UNCHANGED <<text, max_words, overlap_words, sha1, idVars, ingestVars, chatVars>>

ChunkNext == ChunkCall

SpecChunk == ChunkInit /\ [][ChunkNext]_vars

\* The windows the contract describes, in closed form: window k (from 0)
\* starts at token offset k*stride and holds the tokens up to offset
\* k*stride + window, cut at the token count.
ExpectedWindows(t, mw, ow) ==
    LET tokens == Split(t)
        n == Len(tokens)
        window == IF mw >= 1 THEN mw ELSE 1
        overlap == IF ow >= 0 THEN ow ELSE 0
        stride == IF window - overlap >= 1 THEN window - overlap ELSE 1
        count == (n + stride - 1) \div stride
    IN  [k \in 1..count |->
            LET start == (k - 1) * stride
                stop == IF start + window <= n THEN start + window ELSE n
            IN  Join(<<" ">>, [i \in 1..(stop - start) |-> tokens[start + i]])]

\* C1: chunk_text yields exactly the windows at offsets 0, stride, 2*stride,
\* ... below the token count, each the single-space join of its tokens, for
\* every text and every integer max_words and overlap_words; a text without
\* tokens yields nothing, and "a b c d e", 3, 1 yields "a b c", "c d e", "e".
C1_ChunkWindows ==
    chunkPc = "returned" =>
        /\ chunks = ExpectedWindows(text, max_words, overlap_words)
        /\ (Split(text) = <<>> => chunks = <<>>)
        /\ (text = ExampleText /\ max_words = 3 /\ overlap_words = 1 =>
                chunks = << <<"a", " ", "b", " ", "c">>,
                            <<"c", " ", "d", " ", "e">>,
                            <<"e">> >>)

\* A returned call where the overlap is at least the window and the text has
\* several tokens: the stride floor is what makes the chunks advance.
C1_Witness ==
    /\ chunkPc = "returned"
    /\ overlap_words >= max_words
    /\ max_words >= 2
    /\ Len(chunks) >= 2
    /\ Len(chunks[Len(chunks)]) < Len(chunks[1])

(***************************************************************************)
(* SpecId: make_chunk_id applied to bounded inputs, a few calls in a row.  *)
(***************************************************************************)
IdSources == { <<"a">>, <<"a", "1">>, <<"a", ":", "1">> }
IdIndexes == {0, 1, 10}
IdContents == { <<"x">>, <<"0", ":", "x">> }

IdInit ==
    /\ idCalls = <<>>
    /\ sha1 = <<>>
    /\ ChunkIdle
    /\ IngestIdle
    /\ ChatIdle

MakeIdCall ==
    /\ Len(idCalls) < MaxIdCalls
    /\ \E source \in IdSources, index \in IdIndexes, content \in IdContents,
          d \in Digests :
           /\ sha1' = sha1_update(sha1, digest_input(source, index, content), d)
           /\ idCalls' = Append(idCalls,
                  [source |-> source, index |-> index, content |-> content,
                   id |-> make_chunk_id(sha1', source, index, content)])
    /\ UNCHANGED <<chunkVars, ingestVars, chatVars>>

IdNext == MakeIdCall

SpecId == IdInit /\ [][IdNext]_vars

\* C6: make_chunk_id gives different ids to any two chunks whose
\* (source, index) pairs differ, whatever their contents and digests, and
\* the same id to identical (source, index, content) triples.
C6_IdsDistinctAndStable ==
    \A i, j \in 1..Len(idCalls) :
        LET x == idCalls[i]
            y == idCalls[j]
        IN  /\ (x.source # y.source \/ x.index # y.index => x.id # y.id)
            /\ (x.source = y.source /\ x.index = y.index /\ x.content = y.content
                    => x.id = y.id)

\* Two calls whose pairs differ, one source holding the delimiter, and whose
\* digests have the same prefix: only source and index tell the ids apart.
C6_Witness ==
    \E i, j \in 1..Len(idCalls) :
        LET x == idCalls[i]
            y == idCalls[j]
            n == Len(x.id)
            m == Len(y.id)
        IN  /\ x.source = <<"a", ":", "1">> /\ x.index = 0
            /\ y.source = <<"a">> /\ y.index = 10
            /\ SubSeq(x.id, n - PrefixLen + 1, n) = SubSeq(y.id, m - PrefixLen + 1, m)

(***************************************************************************)
(* SpecIngest: runs of ingest.py over one fixed document set with fixed    *)
(* arguments.  A run ends by completing, by an embedding call raising, or  *)
(* by the process being killed.                                            *)
(***************************************************************************)
Paths == { <<"a">>, <<"b">> }
DocTexts == { <<>>, <<"a">>, <<"a", " ", "b">> }
Corpora == UNION {[P -> DocTexts] : P \in SUBSET Paths}
IngestArgs == [max_words : 1..2, overlap_words : 0..1, batch_size : 0..MaxBatchSize]

IngestInit ==
    /\ files \in Corpora
    /\ args \in IngestArgs
    /\ store = {}
    /\ runs = 0
    /\ ipc = "idle"
    /\ fileIdx = 0
    /\ chunkIdx = 0
    /\ batch = <<>>
    /\ total_chunks = 0
    /\ upserts = <<>>
    /\ embedded = <<>>
    /\ report = [kind |-> "none"]
    /\ stored_at_start = 0
    /\ sha1 = <<>>
    /\ ChunkIdle
    /\ IdIdle
    /\ ChatIdle

\* main up to the loops (ingest.py:97-111)
StartRun ==
    /\ ipc \in {"idle", "done", "nofiles", "aborted", "killed"}
    /\ runs < MaxRuns
    /\ runs' = runs + 1
    /\ stored_at_start' = Cardinality(store)
    /\ batch' = <<>>
    /\ total_chunks' = 0
    /\ upserts' = <<>>
    /\ embedded' = <<>>
    /\ IF sorted(DOMAIN files) = <<>>
       THEN /\ ipc' = "nofiles"
            /\ report' = [kind |-> "nofiles"]
            /\ fileIdx' = 0
            /\ chunkIdx' = 0
       ELSE LET pos == loop_position(files, args, 1, 0)
            IN  /\ ipc' = "loop"
                /\ report' = [kind |-> "none"]
                /\ fileIdx' = pos.file
                /\ chunkIdx' = pos.index
    /\ UNCHANGED <<store, sha1, corpusVars, chunkVars, idVars, chatVars>>

InLoop ==
    /\ ipc = "loop"
    /\ fileIdx <= Len(sorted(DOMAIN files))

\* One iteration of the inner loop whose embedding call answers
\* (ingest.py:115-123)
IngestChunk ==
    /\ InLoop
    /\ LET path == sorted(DOMAIN files)[fileIdx]
           index == chunkIdx
           chunk == chunks_of(files, args, path)[index + 1]
           pos == loop_position(files, args, fileIdx, chunkIdx + 1)
       IN  \E d \in Digests :
             /\ sha1' = sha1_update(sha1, digest_input(path, index, chunk), d)
             /\ LET chunk_id == make_chunk_id(sha1', path, index, chunk)
                    embedding == embed_text(chunk)
                    metadata == [source |-> path, chunk_index |-> index]
                    appended == Append(batch,
                        [id |-> chunk_id, document |-> chunk,
                         metadata |-> metadata, embedding |-> embedding])
                    flushed == IF batch_full(appended, args.batch_size)
                               THEN flush_batch(store, appended, upserts)
                               ELSE [store |-> store, batch |-> appended,
                                     upserts |-> upserts]
                IN  /\ embedded' = Append(embedded, <<path, index>>)
                    /\ total_chunks' = total_chunks + 1
                    /\ store' = flushed.store
                    /\ batch' = flushed.batch
                    /\ upserts' = flushed.upserts
             /\ fileIdx' = pos.file
             /\ chunkIdx' = pos.index
    /\ UNCHANGED <<runs, ipc, report, stored_at_start, corpusVars, chunkVars,
                   idVars, chatVars>>

\* The embedding call raises (ingest.py:117): nothing in main catches it, so
\* the process ends with the gateway's exception and what it had buffered
\* is never flushed.
EmbedFails ==
    /\ InLoop
    /\ ipc' = "aborted"
    /\ report' = [kind |-> "exception", raised_by |-> "embed_content"]
    /\ UNCHANGED <<store, runs, fileIdx, chunkIdx, batch, total_chunks, upserts,
                   embedded, stored_at_start, sha1, corpusVars, chunkVars, idVars,
                   chatVars>>

\* The process is killed between two iterations
Interrupt ==
    /\ InLoop
    /\ ipc' = "killed"
    /\ report' = [kind |-> "killed"]
    /\ UNCHANGED <<store, runs, fileIdx, chunkIdx, batch, total_chunks, upserts,
                   embedded, stored_at_start, sha1, corpusVars, chunkVars, idVars,
                   chatVars>>

\* After the loops: the last flush and the report (ingest.py:125-130)
FinishRun ==
    /\ ipc = "loop"
    /\ fileIdx > Len(sorted(DOMAIN files))
    /\ LET flushed == flush_batch(store, batch, upserts)
       IN  /\ store' = flushed.store
           /\ batch' = flushed.batch
           /\ upserts' = flushed.upserts
    /\ ipc' = "done"
    /\ report' = [kind |-> "ingested", total |-> total_chunks]
    /\ UNCHANGED <<runs, fileIdx, chunkIdx, total_chunks, embedded,
                   stored_at_start, sha1, corpusVars, chunkVars, idVars, chatVars>>

IngestNext ==
    \/ StartRun
    \/ IngestChunk
    \/ EmbedFails
    \/ Interrupt
    \/ FinishRun

SpecIngest == IngestInit /\ [][IngestNext]_vars

\* The run's chunk sequence: documents in sorted order, chunks in index order
RECURSIVE ChunkSequenceFrom(_)
ChunkSequenceFrom(paths) ==
    IF paths = <<>> THEN <<>>
    ELSE LET cs == chunks_of(files, args, Head(paths))
         IN  [k \in 1..Len(cs) |-> [path |-> Head(paths), index |-> k - 1, chunk |-> cs[k]]]
             \o ChunkSequenceFrom(Tail(paths))

ChunkSequence == ChunkSequenceFrom(sorted(DOMAIN files))

RECURSIVE Flatten(_)
Flatten(ss) == IF ss = <<>> THEN <<>> ELSE Head(ss) \o Flatten(Tail(ss))

StoreIds == {r.id : r \in store}

\* C2: after any sequence of runs over the fixed corpus that ends with a
\* completed run, the store holds one record per chunk of the corpus and no
\* other: the ids a single completed run writes to an empty store.
C2_IndexConverges ==
    ipc = "done" =>
        /\ \A k \in 1..Len(ChunkSequence) :
              LET c == ChunkSequence[k]
              IN  /\ digest_input(c.path, c.index, c.chunk) \in DOMAIN sha1
                  /\ make_chunk_id(sha1, c.path, c.index, c.chunk) \in StoreIds
        /\ Cardinality(StoreIds) = Len(ChunkSequence)
        /\ Cardinality(store) = Len(ChunkSequence)

\* A second run that completed after a first one had flushed a batch and
\* ended with chunks unwritten.
C2_Witness ==
    /\ ipc = "done"
    /\ runs = 2
    /\ stored_at_start >= 1
    /\ stored_at_start < Cardinality(store)
    /\ Len(upserts) >= 2

\* C10: in a completed run with batch_size >= 1 the upsert calls cut the
\* run's chunk sequence into consecutive batches: each chunk is embedded
\* once and is in exactly one call, every call but the last has batch_size
\* records, the last has 1..batch_size, none is empty, and the reported
\* total is the number of chunks upserted.
C10_BatchesPartitionChunks ==
    ipc = "done" /\ args.batch_size >= 1 =>
        LET sent == Flatten(upserts)
            n == Len(upserts)
        IN  /\ Len(sent) = Len(ChunkSequence)
            /\ \A k \in 1..Len(sent) :
                  /\ sent[k].metadata.source = ChunkSequence[k].path
                  /\ sent[k].metadata.chunk_index = ChunkSequence[k].index
                  /\ sent[k].document = ChunkSequence[k].chunk
            /\ embedded = [k \in 1..Len(ChunkSequence) |->
                              <<ChunkSequence[k].path, ChunkSequence[k].index>>]
            /\ \A k \in 1..n : Len(upserts[k]) >= 1
            /\ \A k \in 1..(n - 1) : Len(upserts[k]) = args.batch_size
            /\ (n >= 1 => Len(upserts[n]) <= args.batch_size)
            /\ report = [kind |-> "ingested", total |-> Len(sent)]

\* A completed run whose last batch is a partial one after a full one.
C10_Witness ==
    /\ ipc = "done"
    /\ args.batch_size = 2
    /\ Len(upserts) = 2
    /\ Len(upserts[1]) = 2
    /\ Len(upserts[2]) = 1

\* C7: when the embedding call fails for a chunk the run aborts there, with
\* no success report, and the caller is told how many chunks the flushed
\* batches had committed.
C7_AbortReportsCommitted ==
    ipc = "aborted" =>
        /\ report.kind # "ingested"
        /\ "committed" \in DOMAIN report
        /\ report.committed = Len(Flatten(upserts))

(***************************************************************************)
(* SpecChat: /chat requests served one after the other by one process.     *)
(***************************************************************************)
NOTHING_RELEVANT ==
    <<"I", " ", "c", "o", "u", "l", "d", "n", "'", "t", " ", "f", "i", "n",
      "d", " ", "a", "n", "y", "t", "h", "i", "n", "g", " ", "r", "e", "l",
      "e", "v", "a", "n", "t", " ", "i", "n", " ", "t", "h", "e", " ", "i",
      "n", "d", "e", "x", "e", "d", " ", "d", "o", "c", "u", "m", "e", "n",
      "t", "a", "t", "i", "o", "n", ".">>

\* The payloads' query strings
Queries == { <<>>, <<" ", "\n">>, <<"q">>, <<" ", "q", "\t">> }

\* The values RAG_MAX_CONTEXT is set to
ContextSettings == {-1, 0, 1, 5}

\* Records of the collection, as ingest.py writes them, and one written
\* without metadata values
Retrievable ==
    { [document |-> <<"x">>, metadata |-> [source |-> Str(<<"a">>), chunk_index |-> IntV(0)]],
      [document |-> <<"y">>, metadata |-> [source |-> Str(<<"a">>), chunk_index |-> IntV(1)]],
      [document |-> <<"z">>, metadata |-> [source |-> Str(<<"b">>), chunk_index |-> IntV(0)]],
      [document |-> <<"w">>, metadata |-> [source |-> Absent, chunk_index |-> Absent]] }

\* The ranked lists a query for n results may return: at most n records,
\* none twice
RankedLists(n) ==
    {l \in UNION {[1..k -> Retrievable] : k \in 0..n} :
        \A i, j \in 1..Len(l) : i # j => l[i] # l[j]}

\* The dict collection.query returns for a ranked list: one inner list per
\* query embedding
query_result(l) ==
    [documents |-> List(<< [i \in 1..Len(l) |-> l[i].document] >>),
     metadatas |-> List(<< [i \in 1..Len(l) |-> l[i].metadata] >>)]

QueryResults ==
    {query_result(l) : l \in RankedLists(RAG_TOP_K)}
        \cup {[documents |-> Absent, metadatas |-> Absent]}

\* results.get(key, [[]])[0]
first_list(v) == IF v = Absent THEN <<>> ELSE v.v[1]

\* Responses the generation call may return
PartsValues ==
    { Absent, None, List(<<>>),
      List(<<[text |-> None]>>),
      List(<<[text |-> Str(<<" ">>)]>>),
      List(<<[text |-> None], [text |-> Str(<<"h", "i", "\n">>)]>>) }
ContentValues == {Absent, None} \cup {[kind |-> "content", parts |-> p] : p \in PartsValues}
CandidateLists ==
    {<<>>} \cup {<<[content |-> c]>> : c \in ContentValues}
           \cup {<<[content |-> None], [content |-> c]>> : c \in ContentValues}
GenResponses ==
    {[text |-> t, candidates |-> Absent] :
        t \in {Str(<<>>), Str(<<" ">>), Str(<<" ", "o", "k", " ">>)}}
    \cup {[text |-> None, candidates |-> c] :
        c \in {Absent, None} \cup {List(l) : l \in CandidateLists}}

ChatInit ==
    /\ api_key_set \in BOOLEAN
    /\ MAX_CONTEXT_SECTIONS \in ContextSettings
    /\ genai_client_cached = FALSE
    /\ collection_cached = FALSE
    /\ requests = 0
    /\ rpc = "idle"
    /\ query = <<>>
    /\ question = <<>>
    /\ results = [kind |-> "none"]
    /\ context = <<>>
    /\ prompt = <<>>
    /\ gen_response = [kind |-> "none"]
    /\ response = [status |-> 0]
    /\ embed_calls = 0
    /\ collection_calls = 0
    /\ store_calls = 0
    /\ generate_calls = 0
    /\ failed_stage = "none"
    /\ sha1 = <<>>
    /\ ChunkIdle
    /\ IdIdle
    /\ IngestIdle

notChat == <<chunkVars, sha1, idVars, ingestVars>>

\* HTTPException(status_code=500, detail=f"{tag}: {exc}"), by its tag
ServerError(tag) == [status |-> 500, detail |-> tag]
\* What the framework answers when an exception leaves the handler
Unhandled == [status |-> 500, detail |-> "Internal Server Error"]

\* A request arrives
Receive ==
    /\ rpc \in {"idle", "Rejected", "Errored", "Responded"}
    /\ requests < MaxRequests
    /\ requests' = requests + 1
    /\ \E q \in Queries : query' = q
    /\ rpc' = "Received"
    /\ question' = <<>>
    /\ results' = [kind |-> "none"]
    /\ context' = <<>>
    /\ prompt' = <<>>
    /\ gen_response' = [kind |-> "none"]
    /\ response' = [status |-> 0]
    /\ embed_calls' = 0
    /\ collection_calls' = 0
    /\ store_calls' = 0
    /\ generate_calls' = 0
    /\ failed_stage' = "none"
    /\ UNCHANGED <<serverVars, notChat>>

\* rag_api.py:129-131
Validate ==
    /\ rpc = "Received"
    /\ question' = Strip(query)
    /\ IF question' = <<>>
       THEN /\ rpc' = "Rejected"
            /\ response' = [status |-> 400, detail |-> "Query must not be empty."]
       ELSE /\ rpc' = "Validated"
            /\ UNCHANGED response
    /\ UNCHANGED <<requests, query, results, context, prompt, gen_response, embed_calls,
                   collection_calls, store_calls, generate_calls, failed_stage,
                   serverVars, notChat>>

\* embed_query answers (rag_api.py:134, 52-55)
EmbedReturns ==
    /\ rpc = "Validated"
    /\ api_key_set
    /\ genai_client_cached' = TRUE
    /\ embed_calls' = embed_calls + 1
    /\ rpc' = "Embedded"
    /\ UNCHANGED <<requests, query, question, results, context, prompt, gen_response,
                   response, collection_calls, store_calls, generate_calls,
                   failed_stage, api_key_set, MAX_CONTEXT_SECTIONS,
                   collection_cached, notChat>>

\* embed_query raises: get_genai_client finds no key, or the call fails
\* (rag_api.py:135-136)
EmbedRaises ==
    /\ rpc = "Validated"
    /\ IF api_key_set
       THEN /\ genai_client_cached' = TRUE
            /\ embed_calls' = embed_calls + 1
       ELSE UNCHANGED <<genai_client_cached, embed_calls>>
    /\ rpc' = "Errored"
    /\ failed_stage' = "embedding"
    /\ response' = ServerError("Failed to embed query")
    /\ UNCHANGED <<requests, query, question, results, context, prompt, gen_response,
                   collection_calls, store_calls, generate_calls, api_key_set,
                   MAX_CONTEXT_SECTIONS, collection_cached, notChat>>

\* get_chroma_collection returns the handle, cached or new (rag_api.py:138)
CollectionReturns ==
    /\ rpc = "Embedded"
    /\ collection_cached' = TRUE
    /\ collection_calls' = IF collection_cached THEN collection_calls
                           ELSE collection_calls + 1
    /\ rpc' = "HaveCollection"
    /\ UNCHANGED <<requests, query, question, results, context, prompt, gen_response,
                   response, embed_calls, store_calls, generate_calls,
                   failed_stage, api_key_set, MAX_CONTEXT_SECTIONS,
                   genai_client_cached, notChat>>

\* get_chroma_collection raises while it builds the handle; the call is
\* outside every try of chat, so the exception leaves the handler
CollectionRaises ==
    /\ rpc = "Embedded"
    /\ ~collection_cached
    /\ collection_calls' = collection_calls + 1
    /\ rpc' = "Errored"
    /\ failed_stage' = "vector store"
    /\ response' = Unhandled
    /\ UNCHANGED <<requests, query, question, results, context, prompt, gen_response,
                   embed_calls, store_calls, generate_calls, serverVars, notChat>>

no_documents_IsNone(documents) == FALSE
\* if not documents
no_documents(documents) == documents = <<>>

\* collection.query answers; the result is read and, if it holds documents,
\* the context is built (rag_api.py:140-154)
QueryReturns ==
    /\ rpc = "HaveCollection"
    /\ store_calls' = store_calls + 1
    /\ \E r \in QueryResults :
         /\ results' = r
         /\ LET documents == first_list(r.documents)
                metadatas == first_list(r.metadatas)
            IN  IF no_documents(documents)
                THEN /\ rpc' = "Responded"
                     /\ response' = [status |-> 200, answer |-> NOTHING_RELEVANT,
                                     sources |-> <<>>]
                     /\ UNCHANGED <<context, prompt>>
                ELSE /\ rpc' = "ContextBuilt"
                     /\ context' = format_context(
                            slice_to(documents, MAX_CONTEXT_SECTIONS),
                            slice_to(metadatas, MAX_CONTEXT_SECTIONS))
                     /\ prompt' = build_prompt(context', question)
                     /\ UNCHANGED response
    /\ UNCHANGED <<requests, query, question, gen_response, embed_calls,
                   collection_calls, generate_calls, failed_stage, serverVars,
                   notChat>>

\* collection.query raises (rag_api.py:141-142)
QueryRaises ==
    /\ rpc = "HaveCollection"
    /\ store_calls' = store_calls + 1
    /\ rpc' = "Errored"
    /\ failed_stage' = "vector store"
    /\ response' = ServerError("Vector store query failed")
    /\ UNCHANGED <<requests, query, question, results, context, prompt, gen_response,
                   embed_calls, collection_calls, generate_calls, serverVars,
                   notChat>>

\* The generation call, given the prompt, answers; generate_answer reads the
\* response, and the sources are collected (rag_api.py:156-162)
GenerateReturns ==
    /\ rpc = "ContextBuilt"
    /\ generate_calls' = generate_calls + 1
    /\ \E resp \in GenResponses :
         /\ gen_response' = resp
         /\ LET answer == generate_answer(resp)
            IN  IF answer.kind = "return"
                THEN /\ rpc' = "Responded"
                     /\ response' = [status |-> 200, answer |-> answer.value,
                                     sources |-> collect_sources(first_list(results.metadatas))]
                     /\ UNCHANGED failed_stage
                ELSE /\ rpc' = "Errored"
                     /\ failed_stage' = "generation"
                     /\ response' = ServerError("Content generation failed")
    /\ UNCHANGED <<requests, query, question, results, context, prompt,
                   embed_calls, collection_calls, store_calls, serverVars, notChat>>

\* The generation call raises (rag_api.py:158-159)
GenerateRaises ==
    /\ rpc = "ContextBuilt"
    /\ generate_calls' = generate_calls + 1
    /\ rpc' = "Errored"
    /\ failed_stage' = "generation"
    /\ response' = ServerError("Content generation failed")
    /\ UNCHANGED <<requests, query, question, results, context, prompt, gen_response,
                   embed_calls, collection_calls, store_calls, serverVars, notChat>>

ChatNext ==
    \/ Receive
    \/ Validate
    \/ EmbedReturns
    \/ EmbedRaises
    \/ CollectionReturns
    \/ CollectionRaises
    \/ QueryReturns
    \/ QueryRaises
    \/ GenerateReturns
    \/ GenerateRaises

SpecChat == ChatInit /\ [][ChatNext]_vars

\* The request has read a query result
Retrieved == results # [kind |-> "none"]
RetrievedDocuments == first_list(results.documents)
RetrievedMetadatas == first_list(results.metadatas)

\* C3: a request whose retrieval returns no documents is answered with the
\* fixed "nothing relevant" text and no sources, and never calls the
\* generation gateway.
C3_EmptyRetrievalFallback ==
    Retrieved /\ RetrievedDocuments = <<>> =>
        /\ rpc = "Responded"
        /\ response = [status |-> 200, answer |-> NOTHING_RELEVANT, sources |-> <<>>]
        /\ generate_calls = 0
        /\ gen_response = [kind |-> "none"]

\* A request answered from a query result whose document list is empty.
C3_Witness ==
    /\ Retrieved
    /\ results.documents = List(<< <<>> >>)
    /\ rpc = "Responded"
    /\ embed_calls = 1
    /\ store_calls = 1

\* The tag the handler gives a failure of each stage
StageTag(stage) ==
    CASE stage = "embedding" -> "Failed to embed query"
      [] stage = "vector store" -> "Vector store query failed"
      [] stage = "generation" -> "Content generation failed"
      [] OTHER -> "none"

\* C4: a failure at any stage after validation (embedding, the vector store
\* step with the collection handle, generation) ends the request with a
\* server error whose detail names that stage, and no gateway is called
\* twice in the request.
C4_FailuresCarryTheirStage ==
    rpc = "Errored" =>
        /\ response.status = 500
        /\ response.detail = StageTag(failed_stage)
        /\ embed_calls <= 1
        /\ store_calls <= 1
        /\ generate_calls <= 1

\* The entries of the retrieved metadata that hold a source
SourcePositions(metas) == {k \in 1..Len(metas) : metas[k].source.kind = "str"}
FirstPosition(metas, source) ==
    CHOOSE k \in SourcePositions(metas) :
        /\ metas[k].source.v = source
        /\ \A j \in SourcePositions(metas) : metas[j].source.v = source => k <= j

\* C5: an answered request lists each distinct source of the whole retrieved
\* metadata exactly once, in the order of first appearance, whatever the
\* maximum-context-sections setting.
C5_SourcesDistinctInRankOrder ==
    rpc = "Responded" /\ Retrieved /\ RetrievedDocuments # <<>> =>
        LET listed == response.sources
            metas == RetrievedMetadatas
        IN  /\ \A i, j \in 1..Len(listed) : i # j => listed[i] # listed[j]
            /\ {listed[i] : i \in 1..Len(listed)}
                  = {metas[k].source.v : k \in SourcePositions(metas)}
            /\ \A i, j \in 1..Len(listed) :
                  i < j => FirstPosition(metas, listed[i]) < FirstPosition(metas, listed[j])

\* An answered request whose context was cut to one section while two
\* sources were retrieved: both are listed.
C5_Witness ==
    /\ rpc = "Responded"
    /\ Retrieved
    /\ MAX_CONTEXT_SECTIONS = 1
    /\ Len(RetrievedDocuments) = 2
    /\ response.sources = << <<"a">>, <<"b">> >>
    /\ context = <<"[", "1", "]", " ", "a", " ", "(", "c", "h", "u", "n", "k", " ",
                   "1", ")", "\n", "y">>

\* A text value with nothing to extract: missing, None, empty or whitespace
Blank(v) ==
    \/ v \in {Absent, None}
    \/ v.kind = "str" /\ \A i \in 1..Len(v.v) : v.v[i] \in Whitespace

\* No shape of the response carries extractable text
NoExtractableText(resp) ==
    /\ Blank(resp.text)
    /\ resp.candidates.kind = "list" =>
         \A i \in 1..Len(resp.candidates.v) :
            LET content == resp.candidates.v[i].content
            IN  content.kind = "content" /\ content.parts.kind = "list" =>
                  \A k \in 1..Len(content.parts.v) : Blank(content.parts.v[k].text)

\* C8: whenever the generation call returns, generate_answer returns too:
\* the trimmed direct text if the response has one, and the fixed fallback
\* when no shape carries extractable text (no candidates, no content, parts
\* absent or null, text empty or whitespace).
C8_GenerateAnswerAlwaysReturns ==
    gen_response # [kind |-> "none"] =>
        /\ rpc = "Responded"
        /\ response.status = 200
        /\ (~Blank(gen_response.text) => response.answer = Strip(gen_response.text.v))
        /\ (NoExtractableText(gen_response) => response.answer = FALLBACK_ANSWER)

\* C9: a request whose query is empty or only whitespace is rejected with
\* status 400, and makes no embedding call, no vector store access and no
\* generation call.
C9_EmptyQueryRejected ==
    rpc \notin {"idle", "Received"} /\ (\A i \in 1..Len(query) : query[i] \in Whitespace) =>
        /\ rpc = "Rejected"
        /\ response = [status |-> 400, detail |-> "Query must not be empty."]
        /\ embed_calls = 0
        /\ collection_calls = 0
        /\ store_calls = 0
        /\ generate_calls = 0
        /\ ~Retrieved

\* A rejected request whose query is whitespace only.
C9_Witness ==
    /\ rpc = "Rejected"
    /\ query = <<" ", "\n">>
    /\ response.status = 400

====
